---- MODULE Spec2Model ----
(***************************************************************************)
(* Model of src/pull.go (package drive): Pull, playPullChangeList, the     *)
(* three handlers localMod / localAdd / localDelete and download.          *)
(*                                                                         *)
(* The main goroutine runs Pull and, inside it, playPullChangeList; every  *)
(* `go g.localX(&wg, c)` starts one handler goroutine.  Each statement     *)
(* that touches shared state (the local filesystem, the wait group, the    *)
(* progress counters, the remote transport) is one atomic step.            *)
(***************************************************************************)
EXTENDS Integers, Sequences, FiniteSets, TLC

\* ------------------------------------------------------------------ bounds

\* Longest change list of the concurrent scenarios (two batches at 5).
MaxChanges == 5

\* ------------------------------------------------------- program constants

maxNumOfConcPullTasks == 4

OpMod == "OpMod"
OpAdd == "OpAdd"
OpDelete == "OpDelete"

\* The Go map literal returned by docExportsMap(): MIME type -> [export MIME, ext].
docExportsMap ==
    ("text/plain" :> <<"text/plain", "txt">>)
 @@ ("application/vnd.google-apps.drawing" :> <<"image/svg+xml", "svg+xml">>)
 @@ ("application/vnd.google-apps.spreadsheet" :>
        <<"application/vnd.openxmlformats-officedocument.spreadsheetml.sheet", "xlsx">>)
 @@ ("application/vnd.google-apps.document" :>
        <<"application/vnd.openxmlformats-officedocument.wordprocessingml.document", "docx">>)
 @@ ("application/vnd.google-apps.presentation" :>
        <<"application/vnd.openxmlformats-officedocument.presentationml.presentation", "pptx">>)

\* ------------------------------------------------------------ values

\* The nil error and the nil *File.
Nil == "nil"

\* A nil Src or Dest of a Change.
NoFile == [IsNil |-> TRUE]

\* Modification times: the remote ones, the one local files carry before the
\* pull, and the wall clock while the pull runs (later than all of them).
ModTimeA == "mtimeA"
ModTimeB == "mtimeB"
OldTime == "old"
Now == "now"

\* Go's map index expression: the zero value "" for a missing key or a nil map.
MapGet(m, k) == IF k \in DOMAIN m THEN m[k] ELSE ""

\* A nil map and a map literal of export links.
NoLinks == << >>

\* change.Path is a slash-separated relative path: the sequence of its names.
ContextRoot == <<"ctx">>

AbsPathOf(p) == ContextRoot \o p

\* filepath.Dir: the path without its last name.
Dir(p) == SubSeq(p, 1, Len(p) - 1)

IsPrefix(p, q) == Len(p) <= Len(q) /\ SubSeq(q, 1, Len(p)) = p

\* strings.Join([]string{baseName, ext}, "."): the extension goes onto the last name.
JoinExt(p, ext) == [p EXCEPT ![Len(p)] = p[Len(p)] \o "." \o ext]

\* ------------------------------------------------------- local filesystem
\* fs maps each existing absolute path to [kind, mtime, data].

DirEntry(t) == [kind |-> "dir", mtime |-> t, data |-> ""]
FileEntry(t, d) == [kind |-> "file", mtime |-> t, data |-> d]

Exists(f, p) == p \in DOMAIN f
IsDirAt(f, p) == Exists(f, p) /\ f[p].kind = "dir"
IsFileAt(f, p) == Exists(f, p) /\ f[p].kind = "file"

Put(f, p, e) == [q \in DOMAIN f \cup {p} |-> IF q = p THEN e ELSE f[q]]

\* Adding or removing a name in a directory sets the directory's mtime.
Touch(f, p) == IF Exists(f, p) THEN [f EXCEPT ![p].mtime = Now] ELSE f

\* os.Mkdir
MkdirOk(f, p) == ~Exists(f, p) /\ IsDirAt(f, Dir(p))
Mkdir(f, p) == Put(Touch(f, Dir(p)), p, DirEntry(Now))

\* os.MkdirAll: creates the missing directories of the chain; gives up (its
\* error is dropped by localAdd) where a name of the chain is a file.
RECURSIVE MkdirAll(_, _)
MkdirAll(f, p) ==
    IF Exists(f, p) \/ Len(p) = 0 THEN f
    ELSE LET g == MkdirAll(f, Dir(p))
         IN  IF IsDirAt(g, Dir(p)) THEN Mkdir(g, p) ELSE g

\* os.Create: O_RDWR|O_CREATE|O_TRUNC
CreateOk(f, p) == IsDirAt(f, Dir(p)) /\ ~IsDirAt(f, p)
Create(f, p) ==
    IF Exists(f, p) THEN [f EXCEPT ![p] = FileEntry(Now, "")]
    ELSE Put(Touch(f, Dir(p)), p, FileEntry(Now, ""))

\* io.Copy into the open file: the bytes land in the file while it is linked.
WriteFile(f, p, d) == IF IsFileAt(f, p) THEN [f EXCEPT ![p] = FileEntry(Now, d)] ELSE f

\* os.Chtimes
ChtimesOk(f, p) == Exists(f, p)
Chtimes(f, p, t) == [f EXCEPT ![p].mtime = t]

\* os.RemoveAll: removes p and everything under it; nil when p does not exist.
\* os.Remove: removes a file or an empty directory, and nothing otherwise.
RemoveOnly(f, p) ==
    IF \E q \in DOMAIN f : q # p /\ IsPrefix(p, q) THEN f
    ELSE LET g == [q \in DOMAIN f \ {p} |-> f[q]]
         IN  IF Exists(f, p) THEN Touch(g, Dir(p)) ELSE g

RemoveAll(f, p) ==
    LET keep == {q \in DOMAIN f : ~IsPrefix(p, q)}
        g == [q \in keep |-> f[q]]
    IN  IF Exists(f, p) THEN Touch(g, Dir(p)) ELSE g

\* ------------------------------------------------------------ Change

\* Change.Op(): Add has no Dest, Delete has no Src, Modify has both.
Op(c) ==
    IF c.Dest = NoFile THEN OpAdd
    ELSE IF c.Src = NoFile THEN OpDelete
    ELSE OpMod

\* The bytes rem.Download(id, exportUrl) streams: the blob of id, or the export.
RemoteContent(id, exportUrl) == IF exportUrl = "" THEN "blob:" \o id ELSE exportUrl

\* localMod / localAdd: change.Src.BlobAt != "" || change.Src.ExportLinks != nil
NeedsDownload(c) == c.Src.BlobAt # "" \/ c.Src.HasExportLinks

\* download, lines 153-161: the export-table entry, with the fallback.
mimeKeyExtList(c) ==
    IF c.Src.MimeType \in DOMAIN docExportsMap
    THEN docExportsMap[c.Src.MimeType]
    ELSE <<"text/plain", "txt">>

\* download, lines 145-163: exportUrl as passed to rem.Download.
downloadExportUrl(c) ==
    IF c.Src.BlobAt = "" THEN MapGet(c.Src.ExportLinks, mimeKeyExtList(c)[1]) ELSE ""

\* The export written under the document's own name, with no extension.
downloadBaseNamePlain(c) == c.Path

\* download, lines 146-165: baseName as passed to AbsPathOf.
downloadBaseName(c) ==
    IF c.Src.BlobAt = "" THEN JoinExt(c.Path, mimeKeyExtList(c)[2]) ELSE c.Path

\* ------------------------------------------------------------ inputs
\* A FileMeta value per kind of entry.

DirMeta(t) ==
    [IsNil |-> FALSE, IsDir |-> TRUE, BlobAt |-> "", HasExportLinks |-> FALSE,
     ExportLinks |-> NoLinks, MimeType |-> "application/vnd.google-apps.folder",
     ModTime |-> t, Id |-> "id-dir"]

BlobMeta(id, mime, t) ==
    [IsNil |-> FALSE, IsDir |-> FALSE, BlobAt |-> id, HasExportLinks |-> FALSE,
     ExportLinks |-> NoLinks, MimeType |-> mime, ModTime |-> t, Id |-> id]

DocMeta(id, mime, links, t) ==
    [IsNil |-> FALSE, IsDir |-> FALSE, BlobAt |-> "", HasExportLinks |-> TRUE,
     ExportLinks |-> links, MimeType |-> mime, ModTime |-> t, Id |-> id]

BareMeta(id, mime, t) ==
    [IsNil |-> FALSE, IsDir |-> FALSE, BlobAt |-> "", HasExportLinks |-> FALSE,
     ExportLinks |-> NoLinks, MimeType |-> mime, ModTime |-> t, Id |-> id]

\* NewLocalFile(absPath, info): BlobAt is the local path.
LocalMeta(p, isDir) ==
    [IsNil |-> FALSE, IsDir |-> isDir, BlobAt |-> AbsPathOf(p), HasExportLinks |-> FALSE,
     ExportLinks |-> NoLinks, MimeType |-> "", ModTime |-> OldTime, Id |-> ""]

ExportMimes == {docExportsMap[k][1] : k \in DOMAIN docExportsMap}
FormMime == "application/vnd.google-apps.form"
AllLinks == [m \in ExportMimes |-> "https://export/" \o m]
PlainLinks == [m \in {"text/plain"} |-> "https://export/" \o m]

AddOf(p, src) == [Path |-> p, Src |-> src, Dest |-> NoFile]
ModOf(p, src, isDir) == [Path |-> p, Src |-> src, Dest |-> LocalMeta(p, isDir)]
DeleteOf(p, isDir) == [Path |-> p, Src |-> NoFile, Dest |-> LocalMeta(p, isDir)]

\* The local tree before the pull: the context root, and under it a directory
\* m and a directory x holding a file y.
BaseFs == (<< >> :> DirEntry(OldTime)) @@ (ContextRoot :> DirEntry(OldTime))

LocalFs ==
    BaseFs
 @@ (AbsPathOf(<<"m">>) :> DirEntry(OldTime))
 @@ (AbsPathOf(<<"x">>) :> DirEntry(OldTime))
 @@ (AbsPathOf(<<"x", "y">>) :> FileEntry(OldTime, "old"))

\* The changes of the concurrent scenarios: a new remote directory d with a
\* blob a, a document f and a blob named f.docx; a directory m whose metadata
\* changed; a directory x deleted remotely.
Pool ==
    << AddOf(<<"d">>, DirMeta(ModTimeA)),
       AddOf(<<"d", "a">>, BlobMeta("id-a", "image/png", ModTimeB)),
       AddOf(<<"d", "f">>,
             DocMeta("id-f", "application/vnd.google-apps.document", AllLinks, ModTimeA)),
       AddOf(<<"d", "f.docx">>, BlobMeta("id-g", "application/octet-stream", ModTimeB)),
       ModOf(<<"m">>, DirMeta(ModTimeB), TRUE),
       DeleteOf(<<"x">>, TRUE) >>

\* The elements of Pool picked by S, in Pool's order.
SubList(S) ==
    LET rank(k) == Cardinality({j \in S : j <= k})
    IN  [n \in 1..Cardinality(S) |-> Pool[CHOOSE k \in S : rank(k) = n]]

ConcurrentScenarios ==
    { [plan |-> SubList(S), fs |-> LocalFs, optsPath |-> << >>] :
        S \in {T \in SUBSET (1..Len(Pool)) : Cardinality(T) <= MaxChanges} }

\* One change of every kind, alone in its list.
SinglePath == <<"s">>

SingleSrcs ==
    {DirMeta(ModTimeA)}
    \cup {BlobMeta("id-s", mime, ModTimeA) : mime \in {"image/png", "text/plain"}}
    \cup {DocMeta("id-s", mime, links, ModTimeA) :
            mime \in DOMAIN docExportsMap \cup {FormMime}, links \in {AllLinks, PlainLinks}}
    \cup {BareMeta("id-s", FormMime, ModTimeA)}

SingleFs(isDir) ==
    IF isDir
    THEN BaseFs @@ (AbsPathOf(SinglePath) :> DirEntry(OldTime))
                @@ (AbsPathOf(SinglePath \o <<"k">>) :> FileEntry(OldTime, "old"))
    ELSE BaseFs @@ (AbsPathOf(SinglePath) :> FileEntry(OldTime, "old"))

SingleScenarios ==
    { [plan |-> <<AddOf(SinglePath, src)>>, fs |-> BaseFs, optsPath |-> o] :
        src \in SingleSrcs, o \in {<< >>, SinglePath} }
    \cup
    { [plan |-> <<ModOf(SinglePath, src, isDir)>>, fs |-> SingleFs(isDir), optsPath |-> o] :
        src \in SingleSrcs, isDir \in BOOLEAN, o \in {<< >>, SinglePath} }
    \cup
    { [plan |-> <<DeleteOf(SinglePath, isDir)>>, fs |-> SingleFs(isDir), optsPath |-> o] :
        isDir \in BOOLEAN, o \in {<< >>, SinglePath} }

Scenarios == ConcurrentScenarios \cup SingleScenarios

\* ------------------------------------------------------------ state

VARIABLES
    plan,             \* what resolveChangeListRecv returns for this pull
    optsPath,         \* g.opts.Path
    fs,               \* the local filesystem
    pc,               \* where the main goroutine is, in Pull / playPullChangeList
    r, l,             \* Pull's remote and local *File
    ok,               \* Pull's ok, the answer of printChangeList
    err,              \* Pull's result
    cl,               \* the change list (pointers: indices into plan)
    next,             \* the current batch
    batches,          \* history: the batches taken so far, in order
    idx,              \* position of the range loop in next
    wg,               \* the wait group's counter
    h,                \* the handler goroutine of each change
    taskStartCalls,   \* the arguments of the calls of g.taskStart
    taskDoneCalls,    \* the number of calls of g.taskDone
    taskFinishCalls   \* the number of calls of g.taskFinish

vars == <<plan, optsPath, fs, pc, r, l, ok, err, cl, next, batches, idx, wg, h,
          taskStartCalls, taskDoneCalls, taskFinishCalls>>

Changes == 1..Len(plan)

\* A handler that was not started: its locals, and how often it was started
\* and called taskDone.
Idle ==
    [pc |-> "pending", fn |-> "none", err |-> Nil, dest |-> << >>, url |-> "",
     fo |-> "none", blob |-> "nil", spawns |-> 0, dones |-> 0]

Init ==
    \E sc \in Scenarios :
        /\ plan = sc.plan
        /\ optsPath = sc.optsPath
        /\ fs = sc.fs
        /\ pc = "find"
        /\ r = Nil
        /\ l = Nil
        /\ ok = "unset"
        /\ err = Nil
        /\ cl = << >>
        /\ next = << >>
        /\ batches = << >>
        /\ idx = 1
        /\ wg = 0
        /\ h = [i \in 1..Len(sc.plan) |-> Idle]
        /\ taskStartCalls = << >>
        /\ taskDoneCalls = 0
        /\ taskFinishCalls = 0

\* ------------------------------------------------------------ Pull

\* r, err = g.rem.FindByPath(g.opts.Path); a failure returns it.
Find ==
    /\ pc = "find"
    /\ \/ r' = "remote" /\ err' = Nil /\ pc' = "stat"
       \/ r' = Nil /\ err' = "ErrFindByPath" /\ pc' = "returned"
    /\ UNCHANGED <<plan, optsPath, ok, batches, fs, l, cl, next, idx, wg, h,
                   taskStartCalls, taskDoneCalls, taskFinishCalls>>

\* localinfo, _ := os.Stat(absPath): l stays nil when the local root is missing.
StatLocal(f, p) == IF Exists(f, AbsPathOf(p)) THEN "local" ELSE Nil

Stat ==
    /\ pc = "stat"
    /\ l' = StatLocal(fs, optsPath)
    /\ pc' = "resolve"
    /\ UNCHANGED <<plan, optsPath, ok, batches, fs, r, err, cl, next, idx, wg, h,
                   taskStartCalls, taskDoneCalls, taskFinishCalls>>

\* cl, err = g.resolveChangeListRecv(...); a failure returns it.
Resolve ==
    /\ pc = "resolve"
    /\ \/ cl' = [i \in Changes |-> i] /\ err' = Nil /\ pc' = "confirm"
       \/ cl' = << >> /\ err' = "ErrResolve" /\ pc' = "returned"
    /\ UNCHANGED <<plan, optsPath, ok, batches, fs, r, l, next, idx, wg, h,
                   taskStartCalls, taskDoneCalls, taskFinishCalls>>

\* The answer of printChangeList ignored.
AfterConfirmAlways(answer) == "play"

\* Where Pull goes with the answer of printChangeList.
AfterConfirm(answer) == IF answer THEN "play" ELSE "returned"

\* if ok := printChangeList(cl, g.opts.IsNoPrompt); ok { ... }; return
Confirm ==
    /\ pc = "confirm"
    /\ \E answer \in BOOLEAN :
         /\ ok' = IF answer THEN "yes" ELSE "no"
         /\ pc' = AfterConfirm(answer)
    /\ UNCHANGED <<plan, optsPath, batches, fs, r, l, err, cl, next, idx, wg, h,
                   taskStartCalls, taskDoneCalls, taskFinishCalls>>

\* ------------------------------------------------ playPullChangeList

\* The total announced as the size of the first batch.
TaskStartArgBatch(c) ==
    IF Len(c) > maxNumOfConcPullTasks THEN maxNumOfConcPullTasks ELSE Len(c)

\* The argument of g.taskStart.
TaskStartArg(c) == Len(c)

TaskStart ==
    /\ pc = "play"
    /\ taskStartCalls' = Append(taskStartCalls, TaskStartArg(cl))
    /\ pc' = "split"
    /\ UNCHANGED <<plan, optsPath, ok, batches, fs, r, l, err, cl, next, idx, wg, h,
                   taskDoneCalls, taskFinishCalls>>

\* next, cl = cl[:max], cl[max:len(cl)]   or   next, cl = cl, []*Change{}
\* An off-by-one in the first slice: the batch stops one element early.
NextBatchShort(c) ==
    IF Len(c) > maxNumOfConcPullTasks THEN SubSeq(c, 1, maxNumOfConcPullTasks - 1) ELSE c

NextBatch(c) ==
    IF Len(c) > maxNumOfConcPullTasks THEN SubSeq(c, 1, maxNumOfConcPullTasks) ELSE c

\* A slip in the slice bounds: the second slice starts one element early.
RestOfListOverlap(c) ==
    IF Len(c) > maxNumOfConcPullTasks
    THEN SubSeq(c, maxNumOfConcPullTasks, Len(c))
    ELSE << >>

RestOfList(c) ==
    IF Len(c) > maxNumOfConcPullTasks
    THEN SubSeq(c, maxNumOfConcPullTasks + 1, Len(c))
    ELSE << >>

\* The head of the loop, to wg.Add: a fresh wait group per batch.
Split ==
    /\ pc = "split"
    /\ next' = NextBatch(cl)
    /\ cl' = RestOfList(cl)
    /\ IF Len(NextBatch(cl)) = 0
       THEN pc' = "finish" /\ wg' = wg /\ idx' = idx /\ batches' = batches
       ELSE /\ pc' = "dispatch" /\ wg' = Len(NextBatch(cl)) /\ idx' = 1
            /\ batches' = Append(batches, NextBatch(cl))
    /\ UNCHANGED <<plan, optsPath, ok, fs, r, l, err, h,
                   taskStartCalls, taskDoneCalls, taskFinishCalls>>

\* A switch that lost a case: a Delete starts no handler.
HandlerForNoDelete(op) ==
    CASE op = OpMod -> "localMod"
      [] op = OpAdd -> "localAdd"
      [] OTHER -> "none"

\* switch c.Op(): the handler the go statement starts.
HandlerFor(op) ==
    CASE op = OpMod -> "localMod"
      [] op = OpAdd -> "localAdd"
      [] op = OpDelete -> "localDelete"
      [] OTHER -> "none"

\* One iteration of `for _, c := range next`.
Dispatch ==
    /\ pc = "dispatch"
    /\ idx <= Len(next)
    /\ LET i == next[idx]
           fn == HandlerFor(Op(plan[i]))
       IN  h' = IF fn = "none" THEN h
                ELSE [h EXCEPT ![i] = [Idle EXCEPT !.pc = "spawned", !.fn = fn,
                                                   !.spawns = h[i].spawns + 1,
                                                   !.dones = h[i].dones]]
    /\ idx' = idx + 1
    /\ pc' = IF idx = Len(next) THEN "wait" ELSE "dispatch"
    /\ UNCHANGED <<plan, optsPath, ok, batches, fs, r, l, err, cl, next, wg,
                   taskStartCalls, taskDoneCalls, taskFinishCalls>>

\* A fail-fast loop: it stops at the first batch with a failed handler.
AfterWaitFailFast == IF \E i \in DOMAIN h : h[i].err # Nil THEN "finish" ELSE "split"

\* Where the loop goes when wg.Wait() returns.
AfterWait == "split"

\* wg.Wait()
Wait ==
    /\ pc = "wait"
    /\ wg = 0
    /\ pc' = AfterWait
    /\ UNCHANGED <<plan, optsPath, ok, batches, fs, r, l, err, cl, next, idx, wg, h,
                   taskStartCalls, taskDoneCalls, taskFinishCalls>>

\* A loop that hands back the error of a failed handler.
playPullErrOfHandlers ==
    IF \E i \in DOMAIN h : h[i].err # Nil
    THEN h[CHOOSE i \in DOMAIN h : h[i].err # Nil].err
    ELSE Nil

\* The named result `err` of playPullChangeList at `return err`: declared in
\* the signature and assigned nowhere in the body.
playPullErr == Nil

\* g.taskFinish(); return err
TaskFinish ==
    /\ pc = "finish"
    /\ taskFinishCalls' = taskFinishCalls + 1
    /\ err' = playPullErr
    /\ pc' = "returned"
    /\ UNCHANGED <<plan, optsPath, ok, batches, fs, r, l, cl, next, idx, wg, h,
                   taskStartCalls, taskDoneCalls>>

\* ------------------------------------------------------------ handlers

mainVars == <<plan, optsPath, pc, r, l, ok, err, cl, next, batches, idx>>
progressVars == <<taskStartCalls, taskDoneCalls, taskFinishCalls>>

\* localMod, to its first branch.
ModBegin(i) ==
    /\ h[i].pc = "spawned"
    /\ h[i].fn = "localMod"
    /\ h' = [h EXCEPT ![i].pc = IF NeedsDownload(plan[i]) THEN "create" ELSE "chtimes"]
    /\ UNCHANGED <<mainVars, fs, wg, progressVars>>

\* localAdd: os.MkdirAll(filepath.Dir(destAbsPath), ...), its error dropped.
\* Parent creation by os.Mkdir with its error returned: fails when the parent
\* is already there.
AddMkdirParentStrict(i) ==
    /\ h[i].pc = "spawned"
    /\ h[i].fn = "localAdd"
    /\ LET parent == Dir(AbsPathOf(plan[i].Path))
       IN  IF MkdirOk(fs, parent)
           THEN /\ fs' = Mkdir(fs, parent)
                /\ h' = [h EXCEPT ![i].pc = IF plan[i].Src.IsDir THEN "mkdir"
                                            ELSE IF NeedsDownload(plan[i]) THEN "create"
                                            ELSE "chtimes"]
           ELSE /\ fs' = fs
                /\ h' = [h EXCEPT ![i].pc = "wgDone", ![i].err = "ErrMkdirParent"]
    /\ UNCHANGED <<mainVars, wg, progressVars>>

AddMkdirAll(i) ==
    /\ h[i].pc = "spawned"
    /\ h[i].fn = "localAdd"
    /\ fs' = MkdirAll(fs, Dir(AbsPathOf(plan[i].Path)))
    /\ h' = [h EXCEPT ![i].pc = IF plan[i].Src.IsDir THEN "mkdir"
                                ELSE IF NeedsDownload(plan[i]) THEN "create"
                                ELSE "chtimes"]
    /\ UNCHANGED <<mainVars, wg, progressVars>>

\* localAdd: return os.Mkdir(destAbsPath, ...)
AddMkdir(i) ==
    /\ h[i].pc = "mkdir"
    /\ LET p == AbsPathOf(plan[i].Path)
       IN  IF MkdirOk(fs, p)
           THEN fs' = Mkdir(fs, p) /\ h' = [h EXCEPT ![i].pc = "wgDone", ![i].err = Nil]
           ELSE fs' = fs /\ h' = [h EXCEPT ![i].pc = "wgDone", ![i].err = "ErrMkdir"]
    /\ UNCHANGED <<mainVars, wg, progressVars>>

\* download, to os.Create(destAbsPath): a failure returns it through the handler.
DownloadCreate(i) ==
    /\ h[i].pc = "create"
    /\ LET url == downloadExportUrl(plan[i])
           p == AbsPathOf(downloadBaseName(plan[i]))
       IN  IF CreateOk(fs, p)
           THEN /\ fs' = Create(fs, p)
                /\ h' = [h EXCEPT ![i].pc = "fetch", ![i].dest = p, ![i].url = url,
                                  ![i].fo = "open"]
           ELSE /\ fs' = fs
                /\ h' = [h EXCEPT ![i].pc = "wgDone", ![i].dest = p, ![i].url = url,
                                  ![i].err = "ErrCreate"]
    /\ UNCHANGED <<mainVars, wg, progressVars>>

\* Close() of an open handle; a second Close() of the same handle is recorded.
CloseHandle(s) == IF s = "open" THEN "closed" ELSE "closedTwice"

\* Only the response stream is closed when download returns.
DeferredClosesBlobOnly(rec) ==
    [rec EXCEPT !.blob = IF @ = "nil" THEN @ ELSE CloseHandle(@)]

\* The deferred calls of download, registered once os.Create has succeeded:
\* fo.Close(), and blob.Close() if blob is not nil.
DeferredCloses(rec) ==
    [rec EXCEPT !.fo = CloseHandle(@),
                !.blob = IF @ = "nil" THEN @ ELSE CloseHandle(@)]

\* download: blob, err = g.rem.Download(change.Src.Id, exportUrl); on a failure
\* download returns and the deferred calls run.
DownloadFetch(i) ==
    /\ h[i].pc = "fetch"
    /\ \/ h' = [h EXCEPT ![i].pc = "copy", ![i].blob = "open"]
       \/ h' = [h EXCEPT ![i] = DeferredCloses([@ EXCEPT !.pc = "wgDone",
                                                         !.err = "ErrDownload"])]
    /\ UNCHANGED <<mainVars, fs, wg, progressVars>>

\* download: _, err = io.Copy(fo, blob); return, and the deferred calls run.
\* An interrupted copy leaves a part of the bytes.
DownloadCopy(i) ==
    /\ h[i].pc = "copy"
    /\ \/ /\ fs' = WriteFile(fs, h[i].dest, RemoteContent(plan[i].Src.Id, h[i].url))
          /\ h' = [h EXCEPT ![i] = DeferredCloses([@ EXCEPT !.pc = "chtimes"])]
       \/ /\ fs' = WriteFile(fs, h[i].dest, "partial")
          /\ h' = [h EXCEPT ![i] = DeferredCloses([@ EXCEPT !.pc = "wgDone",
                                                            !.err = "ErrCopy"])]
    /\ UNCHANGED <<mainVars, wg, progressVars>>

\* The path localMod and localAdd hand to os.Chtimes.
ChtimesTarget(c) == AbsPathOf(c.Path)

\* localMod / localAdd: return os.Chtimes(destAbsPath, ModTime, ModTime)
HandlerChtimes(i) ==
    /\ h[i].pc = "chtimes"
    /\ LET p == ChtimesTarget(plan[i])
       IN  IF ChtimesOk(fs, p)
           THEN /\ fs' = Chtimes(fs, p, plan[i].Src.ModTime)
                /\ h' = [h EXCEPT ![i].pc = "wgDone", ![i].err = Nil]
           ELSE /\ fs' = fs
                /\ h' = [h EXCEPT ![i].pc = "wgDone", ![i].err = "ErrChtimes"]
    /\ UNCHANGED <<mainVars, wg, progressVars>>

\* localDelete: return os.RemoveAll(change.Dest.BlobAt)
DeleteRemoveAll(i) ==
    /\ h[i].pc = "spawned"
    /\ h[i].fn = "localDelete"
    /\ fs' = RemoveAll(fs, plan[i].Dest.BlobAt)
    /\ h' = [h EXCEPT ![i].pc = "wgDone", ![i].err = Nil]
    /\ UNCHANGED <<mainVars, wg, progressVars>>

\* The deferred calls run last-deferred first: `defer g.taskDone()` is the
\* first defer statement of every handler and `defer wg.Done()` the second.
DeferredOrder == <<"wgDone", "taskDone", "exited">>

AfterDeferred(step) ==
    LET k == CHOOSE n \in 1..Len(DeferredOrder) : DeferredOrder[n] = step
    IN  DeferredOrder[k + 1]

\* defer wg.Done()
WgDone(i) ==
    /\ h[i].pc = "wgDone"
    /\ wg' = wg - 1
    /\ h' = [h EXCEPT ![i].pc = AfterDeferred("wgDone")]
    /\ UNCHANGED <<mainVars, fs, progressVars>>

\* defer g.taskDone()
TaskDone(i) ==
    /\ h[i].pc = "taskDone"
    /\ taskDoneCalls' = taskDoneCalls + 1
    /\ h' = [h EXCEPT ![i].pc = AfterDeferred("taskDone"), ![i].dones = @ + 1]
    /\ UNCHANGED <<mainVars, fs, wg, taskStartCalls, taskFinishCalls>>

Next ==
    \/ Find
    \/ Stat
    \/ Resolve
    \/ Confirm
    \/ TaskStart
    \/ Split
    \/ Dispatch
    \/ Wait
    \/ TaskFinish
    \/ \E i \in Changes : ModBegin(i)
    \/ \E i \in Changes : AddMkdirAll(i)
    \/ \E i \in Changes : AddMkdir(i)
    \/ \E i \in Changes : DownloadCreate(i)
    \/ \E i \in Changes : DownloadFetch(i)
    \/ \E i \in Changes : DownloadCopy(i)
    \/ \E i \in Changes : HandlerChtimes(i)
    \/ \E i \in Changes : DeleteRemoveAll(i)
    \/ \E i \in Changes : WgDone(i)
    \/ \E i \in Changes : TaskDone(i)

Spec == Init /\ [][Next]_vars

\* ------------------------------------------------------------ claims

Range(s) == {s[n] : n \in 1..Len(s)}

\* The handler executed its return statement (its deferred calls may remain).
PastReturn == {"wgDone", "taskDone", "exited"}

\* The state of a Change: Pending, Running, Done or Failed.
Status(i) ==
    IF h[i].pc = "pending" THEN "Pending"
    ELSE IF h[i].pc \notin PastReturn THEN "Running"
    ELSE IF h[i].err = Nil THEN "Done"
    ELSE "Failed"

\* playPullChangeList was called and has returned.
ApplierReturned == pc = "returned" /\ taskFinishCalls > 0

\* The handler runs: its goroutine executed a statement.
Started(i) == h[i].pc \notin {"pending", "spawned"}

\* C1 (batch barrier): no handler of a change of batch k+1 starts before every
\* handler of every change of batch k has returned.
C1_BatchBarrier ==
    \A n \in 1..(Len(batches) - 1) :
        \A j \in Range(batches[n + 1]) :
            Started(j) => \A i \in Range(batches[n]) : h[i].pc = "exited"

\* What does hold of the barrier: when a handler of batch k+1 starts, every
\* handler of batch k has executed its return statement and wg.Done().
WorkBarrier ==
    \A n \in 1..(Len(batches) - 1) :
        \A j \in Range(batches[n + 1]) :
            h[j].pc # "pending" =>
                \A i \in Range(batches[n]) : h[i].pc \in {"taskDone", "exited"}

\* C2 (bounded parallelism): at most maxNumOfConcPullTasks handlers are
\* dispatched and not yet returned.
C2_BoundedParallelism ==
    Cardinality({i \in Changes : h[i].pc \notin {"pending", "exited"}})
        <= maxNumOfConcPullTasks

\* What does hold of the bound: at most maxNumOfConcPullTasks handlers are
\* dispatched and have not yet called wg.Done().
WorkBound ==
    Cardinality({i \in Changes : h[i].pc \notin {"pending", "taskDone", "exited"}})
        <= maxNumOfConcPullTasks

\* The handler the claim pairs with each Op().
MatchingHandler(i) ==
    /\ Op(plan[i]) = OpAdd => h[i].fn = "localAdd"
    /\ Op(plan[i]) = OpMod => h[i].fn = "localMod"
    /\ Op(plan[i]) = OpDelete => h[i].fn = "localDelete"

C3_State ==
    \A i \in Changes :
        /\ h[i].spawns <= 1
        /\ h[i].spawns = 0 <=> Status(i) = "Pending"
        /\ h[i].spawns = 1 => MatchingHandler(i)
        /\ ApplierReturned => Status(i) # "Pending"

C3_Step ==
    \A i \in Changes :
        \/ Status(i)' = Status(i)
        \/ <<Status(i), Status(i)'>> \in
              {<<"Pending", "Running">>, <<"Running", "Done">>, <<"Running", "Failed">>}

\* C3 (exactly-once handling): every Change is dispatched once, to the handler
\* of its Op(); it moves Pending -> Running -> Done or Failed and none is
\* Pending when playPullChangeList returns.
C3_ExactlyOnce == []C3_State /\ [][C3_Step]_vars

C3_Witness ==
    /\ ApplierReturned
    /\ Len(batches) = 2
    /\ {h[i].fn : i \in Changes} = {"localAdd", "localMod", "localDelete"}
    /\ \E i \in Changes : Status(i) = "Done"
    /\ \E i \in Changes : Status(i) = "Failed"

\* C4 (partial-failure isolation): whichever handlers fail, every Change of
\* the batch is dispatched, and when playPullChangeList returns every Change
\* of the list was handled, once, to its end.
C4_FailureIsolation ==
    /\ pc = "wait" => \A i \in Range(next) : Status(i) # "Pending"
    /\ ApplierReturned =>
          \A i \in Changes : Status(i) \in {"Done", "Failed"} /\ h[i].spawns = 1

C4_Witness ==
    /\ ApplierReturned
    /\ Len(batches) = 2
    /\ Status(batches[1][1]) = "Failed"
    /\ \E i \in Range(batches[1]) : Status(i) = "Done"
    /\ \A i \in Range(batches[2]) : Status(i) = "Done"

\* The local entry an Add or Modify handler produces or updates: the directory,
\* the raw-blob file, or the file download wrote.
ProducedEntry(i) ==
    IF ~plan[i].Src.IsDir /\ NeedsDownload(plan[i]) THEN h[i].dest
    ELSE AbsPathOf(plan[i].Path)

\* The handler executes its return statement in this step.
ReturnsNow(i) == h[i].pc \notin PastReturn /\ h'[i].pc \in PastReturn

C5_Step ==
    \A i \in Changes :
        (ReturnsNow(i) /\ h'[i].err = Nil /\ h[i].fn \in {"localAdd", "localMod"}) =>
            /\ Exists(fs', ProducedEntry(i))
            /\ fs'[ProducedEntry(i)].mtime = plan[i].Src.ModTime

\* C5 (timestamp preservation): when an Add or Modify handler returns nil, the
\* local entry it produced or updated has modification time Src.ModTime.
C5_TimestampPreserved == [][C5_Step]_vars

\* The pair (export MIME type, extension) the claim gives for a MIME type.
C6_ExportOf(mime) ==
    CASE mime = "application/vnd.google-apps.document" ->
            <<"application/vnd.openxmlformats-officedocument.wordprocessingml.document",
              "docx">>
      [] mime \notin DOMAIN docExportsMap -> <<"text/plain", "txt">>
      [] OTHER -> docExportsMap[mime]

\* The destination and the export URL of the reference rule.
C6_Expected(c) ==
    IF c.Src.BlobAt # ""
    THEN [dest |-> ContextRoot \o c.Path, url |-> ""]
    ELSE LET e == C6_ExportOf(c.Src.MimeType)
             name == c.Path[Len(c.Path)]
         IN  [dest |-> ContextRoot \o Dir(c.Path) \o <<name \o "." \o e[2]>>,
              url |-> IF e[1] \in DOMAIN c.Src.ExportLinks
                      THEN c.Src.ExportLinks[e[1]] ELSE ""]

\* C6 (target selection): the file download creates and the URL it hands to
\* rem.Download are those of the reference rule, for every Src.
C6_TargetSelection ==
    \A i \in Changes :
        h[i].dest # << >> =>
            /\ h[i].dest = C6_Expected(plan[i]).dest
            /\ h[i].url = C6_Expected(plan[i]).url

C6_Witness ==
    \E i \in Changes :
        /\ h[i].blob = "open"
        /\ plan[i].Src.BlobAt = ""
        /\ plan[i].Src.MimeType = "application/vnd.google-apps.document"
        /\ h[i].dest = <<"ctx", "s.docx">>
        /\ h[i].url =
             "https://export/application/vnd.openxmlformats-officedocument.wordprocessingml.document"

\* C7 (progress notification counts): taskStart(N) is called once, before any
\* dispatch; every handler calls taskDone once; taskFinish is called once.
C7_ProgressCounts ==
    /\ Len(taskStartCalls) <= 1
    /\ (pc \in {"split", "dispatch", "wait", "finish"} \/ \E i \in Changes : h[i].pc # "pending")
          => taskStartCalls = <<Len(plan)>>
    /\ \A i \in Changes : h[i].dones <= 1 /\ (h[i].pc = "exited" <=> h[i].dones = 1)
    /\ taskDoneCalls = Cardinality({i \in Changes : h[i].pc = "exited"})
    /\ taskFinishCalls <= 1
    /\ (pc = "returned" /\ taskStartCalls # << >>) =>
          /\ taskFinishCalls = 1
          /\ taskStartCalls = <<Len(plan)>>
          /\ \A i \in Changes : h[i].pc \in PastReturn
    /\ (taskFinishCalls = 1 /\ \A i \in Changes : h[i].pc = "exited") =>
          taskDoneCalls = Len(plan)

C7_Witness ==
    /\ ApplierReturned
    /\ Len(batches) = 2
    /\ \A i \in Changes : h[i].pc = "exited"
    /\ \E i \in Changes : Status(i) = "Failed"
    /\ taskDoneCalls = Len(plan)
    /\ taskStartCalls = <<Len(plan)>>

\* The Changes of the batches taken so far.
InBatches == UNION {Range(batches[n]) : n \in 1..Len(batches)}

\* C8 (progress ordering at the barrier): when wg.Wait() of batch k has
\* returned, taskDone was called for every Change of batches 1..k, and
\* taskFinish is not called before all N calls of taskDone.
C8_ProgressAtBarrier ==
    /\ pc \in {"split", "finish"} => taskDoneCalls = Cardinality(InBatches)
    /\ taskFinishCalls > 0 => taskDoneCalls = Len(plan)

\* Nothing of the applier has happened and the local tree is as it was.
NotApplied ==
    /\ taskStartCalls = << >>
    /\ taskDoneCalls = 0
    /\ taskFinishCalls = 0
    /\ batches = << >>
    /\ \A i \in Changes : h[i] = Idle
    /\ \E sc \in Scenarios : sc.plan = plan /\ sc.fs = fs

\* C9 (no plan, no mutation): a failure of FindByPath or of the resolver is
\* returned by Pull and a refused confirmation returns nil, each without the
\* applier being invoked; a missing local root neither fails nor stops Pull.
C9_NoPlanNoMutation ==
    /\ (pc # "find" /\ r = Nil) =>
          pc = "returned" /\ err = "ErrFindByPath" /\ NotApplied
    /\ (pc = "returned" /\ r # Nil /\ ok = "unset") =>
          err = "ErrResolve" /\ NotApplied
    /\ ok = "no" => pc = "returned" /\ err = Nil /\ NotApplied
    /\ pc \in {"stat", "resolve", "confirm", "play"} => err = Nil /\ NotApplied
    /\ (pc = "returned" /\ ok = "yes") => taskStartCalls # << >> /\ err = Nil

C9_Witness ==
    /\ pc = "returned"
    /\ r # Nil
    /\ l = Nil
    /\ err = "ErrResolve"
    /\ Len(plan) > 0

\* The resolver's guarantee: no two Changes have the same Path.
UniquePaths == \A i, j \in Changes : i # j => plan[i].Path # plan[j].Path

SameBatch(i, j) == \E n \in 1..Len(batches) : {i, j} \subseteq Range(batches[n])

\* C10 (no write conflicts): with unique Paths, no two handlers of one batch
\* create, truncate or write the same local file.
C10_NoWriteConflict ==
    UniquePaths =>
        \A i, j \in Changes :
            (i # j /\ SameBatch(i, j) /\ h[i].fo # "none" /\ h[j].fo # "none") =>
                h[i].dest # h[j].dest

\* An Add or Modify of a non-directory entry with neither BlobAt nor ExportLinks.
Unmaterializable(i) ==
    /\ h[i].fn \in {"localAdd", "localMod"}
    /\ ~plan[i].Src.IsDir
    /\ plan[i].Src.BlobAt = ""
    /\ ~plan[i].Src.HasExportLinks

\* C11 (default export): an Add or Modify of an entry with neither BlobAt nor
\* ExportLinks goes through download, which writes Path + ".txt".
C11_DefaultExport ==
    \A i \in Changes :
        (Unmaterializable(i) /\ h[i].pc \in PastReturn) =>
            h[i].dest = ContextRoot \o JoinExt(plan[i].Path, "txt")

\* The step in which the Delete handler of change i returns success.
DeleteSucceeds(i) ==
    /\ h[i].fn = "localDelete"
    /\ ReturnsNow(i)
    /\ h'[i].err = Nil

C12_Step ==
    \A i \in Changes :
        DeleteSucceeds(i) =>
            /\ \A q \in DOMAIN fs' : ~IsPrefix(plan[i].Dest.BlobAt, q)
            /\ \A q \in DOMAIN fs :
                   ~IsPrefix(plan[i].Dest.BlobAt, q) => q \in DOMAIN fs'

\* C12 (delete totality): when a Delete handler returns success, Dest.BlobAt
\* and everything nested under it are gone, and every path outside that
\* subtree is still there.
C12_DeleteTotality == [][C12_Step]_vars

\* A Delete of a non-empty directory has returned: the directory is gone and
\* the sibling directory is still there.
C12_Witness ==
    \E i \in Changes :
        /\ h[i].fn = "localDelete"
        /\ Status(i) = "Done"
        /\ plan[i].Dest.IsDir
        /\ plan[i].Dest.BlobAt = AbsPathOf(<<"x">>)
        /\ ~Exists(fs, AbsPathOf(<<"x">>))
        /\ ~Exists(fs, AbsPathOf(<<"x", "y">>))
        /\ Exists(fs, AbsPathOf(<<"m">>))

\* The step in which the Add handler of change i passes its parent-directory
\* creation (os.MkdirAll, pull.go:125).
ParentStep(i) ==
    /\ h[i].fn = "localAdd"
    /\ h[i].pc = "spawned"
    /\ h'[i].pc # "spawned"

C13_Step ==
    \A i \in Changes :
        ParentStep(i) =>
            /\ h'[i].err = Nil
            /\ h'[i].pc \notin PastReturn
            /\ IsDirAt(fs', Dir(AbsPathOf(plan[i].Path)))

\* C13 (directory idempotence): the parent-directory creation step of an Add
\* handler never makes the handler fail, also when a sibling handler has
\* created the parent already; the handler goes on with the parent in place.
C13_DirectoryIdempotence == [][C13_Step]_vars

\* Two Adds of one batch under the same parent d, which no Change of the plan
\* creates, are both past the parent creation and both without error.
C13_Witness ==
    \E i, j \in Changes :
        /\ i # j
        /\ SameBatch(i, j)
        /\ h[i].fn = "localAdd" /\ h[j].fn = "localAdd"
        /\ Dir(plan[i].Path) = <<"d">> /\ Dir(plan[j].Path) = <<"d">>
        /\ \A k \in Changes : plan[k].Path # <<"d">>
        /\ Started(i) /\ Started(j)
        /\ h[i].pc \notin PastReturn /\ h[j].pc \notin PastReturn
        /\ h[i].err = Nil /\ h[j].err = Nil
        /\ IsDirAt(fs, AbsPathOf(<<"d">>))

RECURSIVE Flatten(_)
Flatten(ss) == IF ss = << >> THEN << >> ELSE Head(ss) \o Flatten(Tail(ss))

\* The change list as resolveChangeListRecv handed it over.
OriginalList == [i \in Changes |-> i]

InApplier == pc \in {"split", "dispatch", "wait", "finish"} \/ ApplierReturned

\* C14 (partitioning): the batches taken so far followed by the rest of the
\* list are the original list in its order; a batch has 1 to 4 elements, every
\* batch but the last exactly 4, and at return there are ceil(N/4) batches.
C14_Partitioning ==
    InApplier =>
        /\ Flatten(batches) \o cl = OriginalList
        /\ \A n \in 1..Len(batches) :
               /\ Len(batches[n]) \in 1..maxNumOfConcPullTasks
               /\ (n < Len(batches) \/ cl # << >>) =>
                      Len(batches[n]) = maxNumOfConcPullTasks
        /\ ApplierReturned =>
               /\ cl = << >>
               /\ Len(batches) =
                      (Len(plan) + maxNumOfConcPullTasks - 1) \div maxNumOfConcPullTasks

\* A list longer than one batch has been applied: a full batch, then the rest.
C14_Witness ==
    /\ ApplierReturned
    /\ Len(plan) > maxNumOfConcPullTasks
    /\ Len(batches) = 2
    /\ batches[1] = SubSeq(OriginalList, 1, maxNumOfConcPullTasks)
    /\ batches[2] = SubSeq(OriginalList, maxNumOfConcPullTasks + 1, Len(plan))

C14_EmptyList == ApplierReturned /\ Len(plan) = 0 /\ batches = << >>

\* Every goroutine that is runnable gets to run, and every call a handler makes
\* returns: the steps of Next that are enabled are eventually taken.
\* The liveness check runs on the shortest lists and on the longest ones, which
\* take more than one batch.
MaxShort == 1

FairInit == Init /\ (Len(plan) <= MaxShort \/ Len(plan) >= MaxChanges)

FairSpec == FairInit /\ [][Next]_vars /\ WF_vars(Next)

\* The handlers of the current batch that the go statements have started.
DispatchedInBatch == {i \in Range(next) : h[i].pc # "pending"}

\* The handlers of the current batch that have run their wg.Done().
ReleasedInBatch == {i \in Range(next) : h[i].pc \in {"taskDone", "exited"}}

C15_Registered ==
    /\ pc = "wait" => Cardinality(DispatchedInBatch) = Len(next)
    /\ pc \in {"dispatch", "wait"} => wg = Len(next) - Cardinality(ReleasedInBatch)

C16_ErrorsNotSurfaced == ApplierReturned => err = Nil

\* The applier has returned nil although two handlers of the list failed.
C16_Witness ==
    /\ ApplierReturned
    /\ err = Nil
    /\ \E i, j \in Changes : i # j /\ Status(i) = "Failed" /\ Status(j) = "Failed"

\* download was called for change i and has returned.
DownloadReturned(i) == h[i].dest # << >> /\ h[i].pc \notin {"fetch", "copy"}

\* C17 (resource release in download): when download has returned, on each of
\* its exit paths, the file handle it opened and the response stream it
\* obtained are closed, once each; on a path that never opened one there is
\* none.
C17_ResourceRelease ==
    \A i \in Changes :
        DownloadReturned(i) =>
            /\ h[i].fo = (IF h[i].err = "ErrCreate" THEN "none" ELSE "closed")
            /\ h[i].blob = (IF h[i].err \in {"ErrCreate", "ErrDownload"} THEN "nil"
                            ELSE "closed")

\* In one batch a download has returned from a failed fetch, another from a
\* failed copy and a third from a success.
C17_Witness ==
    \E i, j, k \in Changes :
        /\ DownloadReturned(i) /\ h[i].err = "ErrDownload"
        /\ h[i].fo = "closed" /\ h[i].blob = "nil"
        /\ DownloadReturned(j) /\ h[j].err = "ErrCopy"
        /\ h[j].fo = "closed" /\ h[j].blob = "closed"
        /\ DownloadReturned(k) /\ h[k].pc = "chtimes"
        /\ h[k].fo = "closed" /\ h[k].blob = "closed"

C17_CreateFailure ==
    \E i \in Changes :
        DownloadReturned(i) /\ h[i].err = "ErrCreate" /\ h[i].fo = "none" /\ h[i].blob = "nil"

\* An Add or Modify of an exported document whose download has succeeded.
ExportDownloaded(i) ==
    /\ h[i].fn \in {"localAdd", "localMod"}
    /\ plan[i].Src.BlobAt = ""
    /\ plan[i].Src.HasExportLinks
    /\ DownloadReturned(i)
    /\ h[i].blob = "closed"
    /\ h[i].err # "ErrCopy"

\* C18 (export timestamp path): after a successful download of an exported
\* document the handler sets the modification time of the path download wrote,
\* Path with the export extension, and ends in Done.
C18_ExportTimestampPath ==
    \A i \in Changes :
        ExportDownloaded(i) =>
            /\ ChtimesTarget(plan[i]) = h[i].dest
            /\ h[i].pc \in PastReturn => h[i].err = Nil

\* Change i adds a directory and change j, of the same batch, adds a raw-blob
\* file directly under it; both handlers have returned and the transport did
\* not fail.
DirAndChildAdded(i, j) ==
    /\ SameBatch(i, j)
    /\ h[i].fn = "localAdd" /\ plan[i].Src.IsDir
    /\ h[j].fn = "localAdd" /\ plan[j].Src.BlobAt # ""
    /\ Dir(plan[j].Path) = plan[i].Path
    /\ h[i].pc \in PastReturn /\ h[j].pc \in PastReturn
    /\ h[j].err \notin {"ErrDownload", "ErrCopy"}

\* C19 (Add of a directory with Add of its child): whichever handler runs
\* first, both end in Done and both the directory and the file exist.
C19_DirAndChild ==
    \A i, j \in Changes :
        DirAndChildAdded(i, j) =>
            /\ h[i].err = Nil
            /\ h[j].err = Nil
            /\ IsDirAt(fs, AbsPathOf(plan[i].Path))
            /\ IsFileAt(fs, AbsPathOf(plan[j].Path))

\* The step in which the remote fetch of change i fails and download returns.
FetchFails(i) == h[i].pc = "fetch" /\ h'[i].err = "ErrDownload"

\* What the claim says of that step: the file os.Create made is there and
\* empty, and the handler returns the fetch error without reaching os.Chtimes.
EmptyAfterFetchFailure(i) ==
    /\ h[i].fo = "open"
    /\ IsFileAt(fs', h[i].dest)
    /\ fs'[h[i].dest].data = ""
    /\ fs'[h[i].dest].mtime # plan[i].Src.ModTime
    /\ h'[i].pc \in PastReturn

C20_Step == \A i \in Changes : FetchFails(i) => EmptyAfterFetchFailure(i)

\* C20 (order of effects in download): the destination file is created or
\* truncated before the fetch, so when the fetch fails the file exists with
\* empty content and the handler returns the error without setting the
\* modification time.
C20_CreateBeforeFetch == [][C20_Step]_vars

\* No other Change of the list is written to the file change i is written to.
OwnDestination(i) ==
    \A j \in Changes \ {i} :
        (Op(plan[j]) # OpDelete /\ ~plan[j].Src.IsDir /\ NeedsDownload(plan[j])) =>
            AbsPathOf(downloadBaseName(plan[j])) # h[i].dest

\* The same for a handler that has its destination file to itself.
C20_OwnDestinationStep ==
    \A i \in Changes : (FetchFails(i) /\ OwnDestination(i)) => EmptyAfterFetchFailure(i)

C20_OwnDestination == [][C20_OwnDestinationStep]_vars

====
